---- MODULE Spec2Model ----
(***************************************************************************)
(* GraphWaveFunctionCollapse: the solver state GraphWFCState               *)
(* (src/graphwfc/GraphWFCState.py) and the helpers get_isos/get_patterns   *)
(* (src/graphwfc/helpers.py) as a state machine.                           *)
(*                                                                         *)
(* Graphs are undirected, a record [n |-> nodes, e |-> set of {u,v}].      *)
(* A GL has the nodes 1..k, so sorted(GL.nodes()) is 1..k and an iso is a  *)
(* k-tuple of host nodes.  GL ids are 1-based here (0-based in the code).  *)
(* Python's set.pop(), set iteration and random.choice are nondeterministic*)
(* choices.  Entropies are kept in fixed point, unit 10^-6 nat.            *)
(***************************************************************************)
EXTENDS Integers, Sequences, FiniteSets, TLC

\* ------------------------------------------------------------------ bounds
\* largest positive budget passed to run()
MaxIter == 2
\* run() is not called any more once iteration_count has reached this value
MaxIterationCount == 4

\* ------------------------------------------------------------ input graphs
Unset == "unset"
\* the attribute is present and None
NoneColor == "None"

Edge == [n |-> {1, 2}, e |-> {{1, 2}}]
Path3 == [n |-> {1, 2, 3}, e |-> {{1, 2}, {2, 3}}]
Path4 == [n |-> {1, 2, 3, 4}, e |-> {{1, 2}, {2, 3}, {3, 4}}]
Path7 == [n |-> 1..7, e |-> {{v, v + 1} : v \in 1..6}]
Triangle == [n |-> {1, 2, 3}, e |-> {{1, 2}, {2, 3}, {1, 3}}]
Path3Iso == [n |-> {1, 2, 3, 4}, e |-> {{1, 2}, {2, 3}}]
TwoIsolated == [n |-> {1, 2}, e |-> {}]
TriangleAndEdge == [n |-> {1, 2, 3, 4, 5}, e |-> {{1, 2}, {2, 3}, {1, 3}, {4, 5}}]

bbry == [v \in 1..4 |-> IF v <= 2 THEN "b" ELSE IF v = 3 THEN "r" ELSE "y"]
\* seven nodes, each of its own color
rainbow == [v \in 1..7 |-> <<"b", "r", "y", "g", "o", "p", "w">>[v]]
rr == [v \in 1..2 |-> "r"]
br == [v \in 1..2 |-> IF v = 1 THEN "b" ELSE "r"]
brb == [v \in 1..3 |-> IF v = 2 THEN "r" ELSE "b"]
brb_missing == [v \in 1..4 |-> IF v = 4 THEN Unset ELSE IF v = 2 THEN "r" ELSE "b"]
b_missing == [v \in 1..2 |-> IF v = 1 THEN "b" ELSE Unset]
b_none == [v \in 1..2 |-> IF v = 1 THEN "b" ELSE NoneColor]

NoColors(G) == [v \in G.n |-> Unset]
PreColor(G, node, c) == [v \in G.n |-> IF v = node THEN c ELSE Unset]

\* the inputs (GI, GLs, GO, node colors) the constructor is called with
Scenarios ==
  << [GI |-> Path4, GIc |-> bbry, GLs |-> <<Edge>>, GO |-> Triangle, GOc |-> NoColors(Triangle)],
     [GI |-> Path4, GIc |-> bbry, GLs |-> <<Edge>>, GO |-> Path3Iso, GOc |-> NoColors(Path3Iso)],
     [GI |-> Edge, GIc |-> rr, GLs |-> <<Edge>>, GO |-> Triangle, GOc |-> PreColor(Triangle, 1, "b")],
     [GI |-> Path4, GIc |-> bbry, GLs |-> <<Edge, Path3>>, GO |-> Path3, GOc |-> NoColors(Path3)],
     [GI |-> Path4, GIc |-> bbry, GLs |-> <<Edge, Triangle>>, GO |-> Triangle, GOc |-> NoColors(Triangle)],
     [GI |-> Path4, GIc |-> bbry, GLs |-> <<Edge>>, GO |-> TwoIsolated, GOc |-> NoColors(TwoIsolated)],
     [GI |-> Edge, GIc |-> rr, GLs |-> <<Edge>>, GO |-> Edge, GOc |-> NoColors(Edge)],
     [GI |-> Path4, GIc |-> bbry, GLs |-> <<Edge>>, GO |-> Edge, GOc |-> PreColor(Edge, 1, "y")],
     [GI |-> Edge, GIc |-> br, GLs |-> <<Edge>>, GO |-> TriangleAndEdge, GOc |-> NoColors(TriangleAndEdge)],
     [GI |-> Path3, GIc |-> brb, GLs |-> <<Edge, TwoIsolated>>, GO |-> Path4, GOc |-> NoColors(Path4)],
     [GI |-> Path4, GIc |-> bbry, GLs |-> << >>, GO |-> Triangle, GOc |-> NoColors(Triangle)],
     [GI |-> Path3Iso, GIc |-> brb_missing, GLs |-> <<Edge>>, GO |-> Edge, GOc |-> NoColors(Edge)],
     [GI |-> Edge, GIc |-> b_missing, GLs |-> <<Edge>>, GO |-> Edge, GOc |-> NoColors(Edge)],
     [GI |-> Edge, GIc |-> b_none, GLs |-> <<Edge>>, GO |-> Edge, GOc |-> NoColors(Edge)],
     [GI |-> Path7, GIc |-> rainbow, GLs |-> <<Edge>>, GO |-> Path4, GOc |-> NoColors(Path4)] >>

\* ------------------------------------------------------------------ helpers
SumOver(S, f) ==
  LET sum[T \in SUBSET S] ==
        IF T = {} THEN 0
        ELSE LET x == CHOOSE y \in T : TRUE IN f[x] + sum[T \ {x}]
  IN sum[S]

RECURSIVE Gcd(_, _)
Gcd(a, b) == IF b = 0 THEN a ELSE Gcd(b, a % b)

SetOf(t) == {t[i] : i \in 1..Len(t)}

\* tuple.index(node)
Index(iso, node) == CHOOSE i \in 1..Len(iso) : iso[i] = node /\ \A k \in 1..(i - 1) : iso[k] # node

\* helpers.get_isos for one GL: the node-induced subgraph isomorphisms GL -> GB,
\* each as the tuple of images of GL's nodes in sorted order
IsosOf(GB, GL) ==
  LET k == Cardinality(GL.n)
  IN {t \in [1..k -> GB.n] :
        /\ \A a, b \in 1..k : a # b => t[a] # t[b]
        /\ \A a, b \in 1..k : a # b => (({a, b} \in GL.e) <=> ({t[a], t[b]} \in GB.e))}

get_isos(GB, GLs) == [j \in 1..Len(GLs) |-> IsosOf(GB, GLs[j])]

\* helpers.get_patterns: per GL the mapping pattern -> number of GI isos carrying it
get_patterns(GI, GIc, GLs) ==
  LET GI_isos == get_isos(GI, GLs)
      PatOf(iso) == [i \in 1..Len(iso) |-> GIc[iso[i]]]
  IN [j \in 1..Len(GLs) |->
        [p \in {PatOf(iso) : iso \in GI_isos[j]} |->
            Cardinality({iso \in GI_isos[j] : PatOf(iso) = p})]]

\* 10^6 * ln(n) for n = 1..12 (math.log)
LnMicro == <<0, 693147, 1098612, 1386294, 1609438, 1791759,
             1945910, 2079442, 2197225, 2302585, 2397895, 2484907>>


\* GraphWFCState._iso_entropy_per_GL: probabilities are collected in a set
iso_entropy(counts, fitting_patterns) ==
  IF fitting_patterns = {} THEN 0
  ELSE LET total == SumOver(fitting_patterns, counts)
           pattern_probabilities ==
             {LET g == Gcd(counts[p], total) IN <<counts[p] \div g, total \div g>> :
                p \in fitting_patterns}
           term == [q \in pattern_probabilities |->
                      (q[1] * (LnMicro[q[2]] - LnMicro[q[1]])) \div q[2]]
       IN SumOver(pattern_probabilities, term)

\* the (GL_id, iso) pairs of a per-GL iso table
IsoKeys(isos) == UNION {{<<j, iso>> : iso \in isos[j]} : j \in DOMAIN isos}

\* -------------------------------------------------------------------- state
VARIABLES
  scen, mode,
  pc, op, iter,
  pattern_count_per_GL, all_colors, GO_isos_per_GL, isos_per_node, invisible_nodes, GO_backup,
  GO, values_per_node, patterns_per_GL_per_iso, iso_entropies_per_GL, iteration_count,
  nodes_to_propagate, isos_to_propagate, removed_values_per_node, next_nodes,
  exc, exc_loc, escaped, escaped_loc, ret,
  failedSinceReset, loopsStarted, runBudget, obsCalls, snapshot, resetAfter, resetsInRow, fp,
  fpSum, sumRose, propStart,
  GO_caller

\* GO_caller: the node colors of the GO object the caller passes to the
\* constructor (the object stays with the caller)
inputs == <<scen, mode, GO_caller>>
static == <<pattern_count_per_GL, all_colors, GO_isos_per_GL, isos_per_node, invisible_nodes, GO_backup>>
tables == <<values_per_node, patterns_per_GL_per_iso, iso_entropies_per_GL>>
locals == <<nodes_to_propagate, isos_to_propagate, removed_values_per_node, next_nodes>>
raised == <<exc, exc_loc, escaped, escaped_loc>>
ghost == <<failedSinceReset, loopsStarted, runBudget, obsCalls, snapshot, resetAfter, resetsInRow, fp>>
\* history: the entropy sum at the last propagate fixed point, whether the sum
\* rose between two fixed points of the current run, and the values and
\* patterns the propagation in progress started from
ghost2 == <<fpSum, sumRose, propStart>>
vars == <<inputs, pc, op, iter, static, GO, tables, iteration_count, locals, raised, ret, ghost,
          ghost2>>

Empty == << >>
NoLoc == <<"none">>
S == Scenarios[scen]
\* the caller passes GLs (and GI) when the tables are computed on the fly;
\* with the cached tables GLs and GI are left at None
GLsGiven == mode = "fly"
GL_count == Len(pattern_count_per_GL)
Keys == IsoKeys(GO_isos_per_GL)
\* the sum of the stored entropies of all isos
EntropySum == SumOver(Keys, iso_entropies_per_GL)
Snap == [values |-> values_per_node, patterns |-> patterns_per_GL_per_iso,
         entropies |-> iso_entropies_per_GL, GO |-> GO, iteration_count |-> iteration_count]

Init ==
  /\ scen \in 1..Len(Scenarios)
  /\ mode \in {"fly", "cached"}
  /\ GO_caller = Scenarios[scen].GOc
  /\ pc = "new" /\ op = "init" /\ iter = 0
  /\ pattern_count_per_GL = Empty /\ all_colors = {} /\ GO_isos_per_GL = Empty
  /\ isos_per_node = Empty /\ invisible_nodes = {} /\ GO_backup = Empty
  /\ GO = Empty /\ values_per_node = Empty /\ patterns_per_GL_per_iso = Empty
  /\ iso_entropies_per_GL = Empty /\ iteration_count = 0
  /\ nodes_to_propagate = {} /\ isos_to_propagate = {} /\ removed_values_per_node = Empty
  /\ next_nodes = {}
  /\ exc = "none" /\ exc_loc = NoLoc /\ escaped = "none" /\ escaped_loc = NoLoc /\ ret = "NA"
  /\ failedSinceReset = FALSE /\ loopsStarted = 0 /\ runBudget = 0 /\ obsCalls = 0
  /\ snapshot = Empty /\ resetAfter = "NA" /\ resetsInRow = 0 /\ fp = FALSE
  /\ fpSum = 0 /\ sumRose = FALSE /\ propStart = Empty

\* ------------------------------------------------------------- constructor
\* variant: the invisible nodes stay in the backup graph
working_nodes_keeps_all(nodes, invisible) == nodes

\* line 96: the nodes of the backup graph once the invisible nodes are removed
working_nodes(nodes, invisible) == nodes \ invisible

\* GraphWFCState.__init__ up to (not including) the call of reset()
Construct ==
  /\ pc = "new"
  /\ LET pc_ == get_patterns(S.GI, S.GIc, S.GLs)
         isos_ == get_isos(S.GO, S.GLs)
         ipn_ == [node \in S.GO.n |->
                    [j \in 1..Len(S.GLs) |-> {iso \in isos_[j] : node \in SetOf(iso)}]]
         inv_ == {node \in S.GO.n : \A j \in 1..Len(pc_) : ipn_[node][j] = {}}
         colors_ == UNION {SetOf(p) : p \in UNION {DOMAIN pc_[j] : j \in 1..Len(pc_)}}
     IN IF Unset \in colors_
        THEN \* helpers.py line 69: GI.nodes[node][node_attr] of a node without the attribute
             /\ escaped' = "KeyError" /\ pc' = "raised"
             /\ UNCHANGED <<static, exc, exc_loc, escaped_loc>>
        ELSE IF NoneColor \in colors_
        THEN \* line 70: assert None not in self._all_colors
             /\ escaped' = "AssertionError" /\ pc' = "raised"
             /\ UNCHANGED <<static, exc, exc_loc, escaped_loc>>
        ELSE IF ~GLsGiven /\ S.GO.n # {}
        THEN \* line 84: "for GL in GLs" iterates over None
             /\ escaped' = "TypeError" /\ pc' = "raised"
             /\ UNCHANGED <<static, exc, exc_loc, escaped_loc>>
        ELSE /\ pattern_count_per_GL' = pc_
             /\ all_colors' = colors_
             /\ GO_isos_per_GL' = isos_
             /\ isos_per_node' = ipn_
             /\ invisible_nodes' = inv_
             /\ GO_backup' = [node \in working_nodes(S.GO.n, inv_) |-> GO_caller[node]]
             /\ pc' = "reset"
             /\ UNCHANGED raised
  /\ UNCHANGED <<inputs, ghost2, op, iter, GO, tables, iteration_count, locals, ret, ghost>>

\* ------------------------------------------------------------------- reset
\* a call of the public reset()
Reset ==
  /\ pc = "ready"
  /\ op' = "reset" /\ pc' = "reset"
  /\ exc' = "none" /\ exc_loc' = NoLoc /\ escaped' = "none" /\ escaped_loc' = NoLoc
  /\ resetAfter' = (IF ret = "NA" THEN resetAfter ELSE ret) /\ ret' = "NA"
  /\ resetsInRow' = IF op = "reset" /\ resetsInRow < 2 THEN resetsInRow + 1 ELSE 1
  /\ UNCHANGED <<inputs, ghost2, iter, static, GO, tables, iteration_count, locals,
                 failedSinceReset, loopsStarted, runBudget, obsCalls, snapshot, fp>>

\* variant: the working GO is copied from the backup only once
ResetBody_keeps_GO ==
  /\ pc = "reset"
  /\ GO' = IF op = "init" THEN GO_backup ELSE GO
  /\ values_per_node' = [node \in DOMAIN GO_backup |-> all_colors]
  /\ patterns_per_GL_per_iso' = [k \in Keys |-> DOMAIN pattern_count_per_GL[k[1]]]
  /\ iso_entropies_per_GL' = [k \in Keys |->
        iso_entropy(pattern_count_per_GL[k[1]], DOMAIN pattern_count_per_GL[k[1]])]
  /\ nodes_to_propagate' = DOMAIN GO_backup
  /\ pc' = "propagate"
  /\ failedSinceReset' = FALSE /\ fp' = FALSE /\ loopsStarted' = 0
  /\ propStart' = [values |-> values_per_node', patterns |-> patterns_per_GL_per_iso']
  /\ UNCHANGED <<inputs, fpSum, sumRose, op, iter, static, iteration_count, isos_to_propagate,
                 removed_values_per_node, next_nodes, raised, ret,
                 runBudget, obsCalls, snapshot, resetAfter, resetsInRow>>

\* reset(), lines 111-128: rebuild the tables and start the initial propagation
ResetBody ==
  /\ pc = "reset"
  /\ GO' = GO_backup
  /\ values_per_node' = [node \in DOMAIN GO_backup |-> all_colors]
  /\ patterns_per_GL_per_iso' = [k \in Keys |-> DOMAIN pattern_count_per_GL[k[1]]]
  /\ iso_entropies_per_GL' = [k \in Keys |->
        iso_entropy(pattern_count_per_GL[k[1]], DOMAIN pattern_count_per_GL[k[1]])]
  /\ nodes_to_propagate' = DOMAIN GO_backup
  /\ pc' = "propagate"
  /\ failedSinceReset' = FALSE /\ fp' = FALSE /\ loopsStarted' = 0
  /\ propStart' = [values |-> values_per_node', patterns |-> patterns_per_GL_per_iso']
  /\ UNCHANGED <<inputs, fpSum, sumRose, op, iter, static, iteration_count, isos_to_propagate,
                 removed_values_per_node, next_nodes, raised, ret,
                 runBudget, obsCalls, snapshot, resetAfter, resetsInRow>>


\* -------------------------------------------------------------- propagation
\* variant: the last GL is left out of the scan (range(self._GL_count - 1))
fitting_values_skip_last_GL(node) ==
  LET allowedvalues_per_iso ==
        {{pattern[Index(k[2], node)] : pattern \in patterns_per_GL_per_iso[k]} :
           k \in {kk \in Keys : kk[1] \in 1..(GL_count - 1) /\ kk[2] \in isos_per_node[node][kk[1]]}}
  IN {c \in values_per_node[node] : \A X \in allowedvalues_per_iso : c \in X}

\* GraphWFCState._fitting_values
fitting_values(node) ==
  LET allowedvalues_per_iso ==
        {{pattern[Index(k[2], node)] : pattern \in patterns_per_GL_per_iso[k]} :
           k \in {kk \in Keys : kk[1] \in 1..GL_count /\ kk[2] \in isos_per_node[node][kk[1]]}}
  IN {c \in values_per_node[node] : \A X \in allowedvalues_per_iso : c \in X}

\* variant: only the first node of the iso is looked up in the removed colors
fitting_patterns_per_GL_first_node(GL_id, iso, removed_colors_per_node) ==
  {pattern \in patterns_per_GL_per_iso[<<GL_id, iso>>] :
     \A node \in {iso[1]} \cap DOMAIN removed_colors_per_node :
        pattern[Index(iso, node)] \notin removed_colors_per_node[node]}

\* GraphWFCState._fitting_patterns_per_GL
fitting_patterns_per_GL(GL_id, iso, removed_colors_per_node) ==
  {pattern \in patterns_per_GL_per_iso[<<GL_id, iso>>] :
     \A node \in SetOf(iso) \cap DOMAIN removed_colors_per_node :
        pattern[Index(iso, node)] \notin removed_colors_per_node[node]}

\* variant: the color is written only in the step that shrinks the node's set
set_color_when_shrunk(node, new_colors) ==
  IF /\ Cardinality(new_colors) = 1 /\ Cardinality(values_per_node[node]) > 1
     /\ GO[node] = Unset
  THEN [GO EXCEPT ![node] = CHOOSE c \in new_colors : TRUE]
  ELSE GO

\* lines 170-173 of _propagate_nodes: the final color of a node is written to
\* GO when the attribute is missing or None
set_color(node, new_colors) ==
  IF Cardinality(new_colors) = 1 /\ GO[node] = Unset
  THEN [GO EXCEPT ![node] = CHOOSE c \in new_colors : TRUE]
  ELSE GO

\* variant: reset() assigns the backup graph itself (no copy at line 111), so
\* the color written at line 173 lands in the backup as well
backup_after_write_aliased(node, new_colors) ==
  IF Cardinality(new_colors) = 1 /\ GO_backup[node] = Unset
  THEN [GO_backup EXCEPT ![node] = CHOOSE c \in new_colors : TRUE]
  ELSE GO_backup

\* the backup graph after the write of line 173: self.GO is a copy made at
\* line 111, the write does not reach the backup
backup_after_write(node, new_colors) == GO_backup

\* raise _Contradiction(location) / _FinishedObserving: the locals of the
\* frames that are unwound are dropped
Raise(e, loc) ==
  /\ exc' = e /\ exc_loc' = loc /\ pc' = "unwind"
  /\ nodes_to_propagate' = {} /\ isos_to_propagate' = {}
  /\ removed_values_per_node' = Empty /\ next_nodes' = {}
  /\ UNCHANGED <<escaped, escaped_loc>>

\* _propagate, line 196 with a non-empty worklist: enter _propagate_nodes
PropagateEnter ==
  /\ pc = "propagate" /\ nodes_to_propagate # {}
  /\ pc' = "nodes"
  /\ isos_to_propagate' = {} /\ removed_values_per_node' = Empty
  /\ UNCHANGED <<inputs, ghost2, op, iter, static, GO, tables, iteration_count,
                 nodes_to_propagate, next_nodes, raised, ret, ghost>>

\* one iteration of the while loop of _propagate_nodes (lines 158-173)
PropagateNode ==
  /\ pc = "nodes" /\ nodes_to_propagate # {}
  /\ \E node \in nodes_to_propagate :
       LET old_colors == values_per_node[node]
           new_colors == fitting_values(node)
           shrunk == Cardinality(new_colors) < Cardinality(old_colors)
       IN /\ values_per_node' = IF shrunk THEN [values_per_node EXCEPT ![node] = new_colors]
                                ELSE values_per_node
          /\ IF Cardinality(new_colors) = 0
             THEN /\ Raise("_Contradiction", <<"node", node>>)
                  /\ GO' = GO /\ GO_backup' = GO_backup
             ELSE /\ nodes_to_propagate' = nodes_to_propagate \ {node}
                  /\ removed_values_per_node' =
                       IF shrunk
                       THEN [n \in DOMAIN removed_values_per_node \cup {node} |->
                               IF n = node
                               THEN (IF n \in DOMAIN removed_values_per_node
                                     THEN removed_values_per_node[n] ELSE {})
                                    \cup (old_colors \ new_colors)
                               ELSE removed_values_per_node[n]]
                       ELSE removed_values_per_node
                  /\ isos_to_propagate' =
                       IF shrunk
                       THEN isos_to_propagate \cup
                            {k \in Keys : k[1] \in 1..GL_count /\ k[2] \in isos_per_node[node][k[1]]}
                       ELSE isos_to_propagate
                  /\ GO' = set_color(node, new_colors)
                  /\ GO_backup' = backup_after_write(node, new_colors)
                  /\ UNCHANGED <<pc, next_nodes, raised>>
  /\ UNCHANGED <<inputs, ghost2, op, iter, pattern_count_per_GL, all_colors, GO_isos_per_GL,
                 isos_per_node, invisible_nodes, patterns_per_GL_per_iso, iso_entropies_per_GL,
                 iteration_count, ret, ghost>>

\* _propagate_nodes returns (line 174), _propagate_isos starts (line 178)
PropagateNodesDone ==
  /\ pc = "nodes" /\ nodes_to_propagate = {}
  /\ pc' = "isos" /\ next_nodes' = {}
  /\ UNCHANGED <<inputs, ghost2, op, iter, static, GO, tables, iteration_count,
                 nodes_to_propagate, isos_to_propagate, removed_values_per_node,
                 raised, ret, ghost>>

\* variant: the stored entropy is not recomputed when the iso's set shrinks
refreshed_entropy_stale(k, new_iso_patterns) == iso_entropies_per_GL[k]

\* line 188 of _propagate_isos: the entropy of the iso's new pattern set
refreshed_entropy(k, new_iso_patterns) ==
  iso_entropy(pattern_count_per_GL[k[1]], new_iso_patterns)

\* line 184 of _propagate_isos
iso_contradiction(new_iso_patterns) == Cardinality(new_iso_patterns) = 0

\* one iteration of the loops of _propagate_isos (lines 179-189): the GLs in
\* order, the dirty isos of one GL in any order
PropagateIso ==
  /\ pc = "isos" /\ isos_to_propagate # {}
  /\ \E k \in isos_to_propagate :
       /\ \A k2 \in isos_to_propagate : k[1] <= k2[1]
       /\ LET old_iso_patterns == patterns_per_GL_per_iso[k]
              new_iso_patterns == fitting_patterns_per_GL(k[1], k[2], removed_values_per_node)
              shrunk == Cardinality(new_iso_patterns) < Cardinality(old_iso_patterns)
          IN IF iso_contradiction(new_iso_patterns)
             THEN /\ Raise("_Contradiction", <<"iso", k[2]>>)
                  /\ UNCHANGED <<patterns_per_GL_per_iso, iso_entropies_per_GL>>
             ELSE /\ patterns_per_GL_per_iso' =
                       IF shrunk THEN [patterns_per_GL_per_iso EXCEPT ![k] = new_iso_patterns]
                       ELSE patterns_per_GL_per_iso
                  /\ iso_entropies_per_GL' =
                       IF shrunk
                       THEN [iso_entropies_per_GL EXCEPT
                               ![k] = refreshed_entropy(k, new_iso_patterns)]
                       ELSE iso_entropies_per_GL
                  /\ next_nodes' = IF shrunk THEN next_nodes \cup SetOf(k[2]) ELSE next_nodes
                  /\ isos_to_propagate' = isos_to_propagate \ {k}
                  /\ UNCHANGED <<pc, nodes_to_propagate, removed_values_per_node, raised>>
  /\ UNCHANGED <<inputs, ghost2, op, iter, static, GO, values_per_node, iteration_count, ret, ghost>>

\* variant: _propagate_isos returns an empty worklist
PropagateIsosDone_drops_worklist ==
  /\ pc = "isos" /\ isos_to_propagate = {}
  /\ pc' = "propagate"
  /\ nodes_to_propagate' = {} /\ next_nodes' = {}
  /\ removed_values_per_node' = Empty
  /\ UNCHANGED <<inputs, ghost2, op, iter, static, GO, tables, iteration_count,
                 isos_to_propagate, raised, ret, ghost>>

\* _propagate_isos returns (line 190) into the loop of _propagate (line 198)
PropagateIsosDone ==
  /\ pc = "isos" /\ isos_to_propagate = {}
  /\ pc' = "propagate"
  /\ nodes_to_propagate' = next_nodes /\ next_nodes' = {}
  /\ removed_values_per_node' = Empty
  /\ UNCHANGED <<inputs, ghost2, op, iter, static, GO, tables, iteration_count,
                 isos_to_propagate, raised, ret, ghost>>

\* a direct call _propagate(startnodes) on a state left by a completed
\* propagate; op remembers the public call that came before
ProbeOp(o) == IF o = "init" THEN "probe_init" ELSE IF o = "reset" THEN "probe_reset"
              ELSE "probe_run"
UnprobeOp(o) == IF o = "probe_init" THEN "init" ELSE IF o = "probe_reset" THEN "reset"
                ELSE "run"
Probing == op \in {"probe_init", "probe_reset", "probe_run"}

Propagate(startnodes) ==
  /\ pc = "ready" /\ fp /\ escaped = "none" /\ ~Probing
  /\ op' = ProbeOp(op)
  /\ nodes_to_propagate' = startnodes
  /\ pc' = "propagate"
  /\ UNCHANGED <<inputs, ghost2, iter, static, GO, tables, iteration_count,
                 isos_to_propagate, removed_values_per_node, next_nodes, raised, ret, ghost>>

\* the direct call returns (line 196 with an empty worklist)
PropagateReturnProbe ==
  /\ pc = "propagate" /\ nodes_to_propagate = {} /\ Probing
  /\ pc' = "ready" /\ op' = UnprobeOp(op)
  /\ UNCHANGED <<inputs, ghost2, iter, static, GO, tables, iteration_count, locals, raised, ret,
                 ghost>>

\* the direct call raises _Contradiction to its caller
CatchProbe ==
  /\ pc = "unwind" /\ Probing
  /\ pc' = "ready"
  /\ UNCHANGED <<inputs, ghost2, op, iter, static, GO, tables, iteration_count, locals, raised,
                 ret, ghost>>

\* _propagate returns inside reset(): line 134
PropagateReturnReset ==
  /\ pc = "propagate" /\ nodes_to_propagate = {} /\ op \in {"init", "reset"}
  /\ iteration_count' = 0
  /\ pc' = "ready"
  /\ fp' = TRUE
  /\ snapshot' = IF op = "init" THEN [Snap EXCEPT !.iteration_count = 0] ELSE snapshot
  /\ fpSum' = EntropySum
  /\ UNCHANGED <<inputs, sumRose, propStart, op, iter, static, GO, tables, locals, raised, ret,
                 failedSinceReset, loopsStarted, runBudget, obsCalls, resetAfter, resetsInRow>>

\* _propagate returns inside run(): line 244
PropagateReturnRun ==
  /\ pc = "propagate" /\ nodes_to_propagate = {} /\ op = "run"
  /\ iter' = iter - 1
  /\ pc' = "while"
  /\ fp' = TRUE
  /\ fpSum' = EntropySum /\ sumRose' = (sumRose \/ EntropySum > fpSum)
  /\ UNCHANGED <<inputs, propStart, op, static, GO, tables, iteration_count, locals, raised, ret,
                 failedSinceReset, loopsStarted, runBudget, obsCalls, snapshot,
                 resetAfter, resetsInRow>>


\* ---------------------------------------------------------------- observer
\* variant: the scan collects every iso of positive entropy (no minimum)
min_GL_and_isos_any_positive == {k \in Keys : iso_entropies_per_GL[k] > 0}

\* variant: the scan accepts entropy 0 (entropy >= 0 at line 207)
min_GL_and_isos_nonnegative ==
  {k \in Keys : /\ iso_entropies_per_GL[k] >= 0
                /\ \A k2 \in Keys : iso_entropies_per_GL[k2] >= 0 =>
                                       iso_entropies_per_GL[k] <= iso_entropies_per_GL[k2]}

\* the (GL_id, iso) pairs collected by the scan of _iso_observe (lines 203-212)
min_GL_and_isos ==
  {k \in Keys : /\ iso_entropies_per_GL[k] > 0
                /\ \A k2 \in Keys : iso_entropies_per_GL[k2] > 0 =>
                                       iso_entropies_per_GL[k] <= iso_entropies_per_GL[k2]}

\* variant: the choice is made among all counted patterns of the GL
weighted_patterns_all_counted(k) == DOMAIN pattern_count_per_GL[k[1]]

\* the patterns random.choice(weighted_patterns) can return (lines 218-222)
weighted_patterns(k) ==
  {pattern \in patterns_per_GL_per_iso[k] : pattern_count_per_GL[k[1]][pattern] >= 1}

\* variant: the entropy of the observed iso is left as it was
pinned_entropy_kept(k) == iso_entropies_per_GL[k]

\* line 225 of _iso_observe: the entropy stored for the observed iso
pinned_entropy(k) == 0

\* GraphWFCState._iso_observe followed by line 195 of the _propagate it feeds
Observe ==
  /\ pc = "observe"
  /\ obsCalls' = obsCalls + 1
  /\ loopsStarted' = loopsStarted + 1
  /\ fp' = FALSE
  /\ IF min_GL_and_isos = {}
     THEN /\ Raise("_FinishedObserving", NoLoc)
          /\ UNCHANGED <<patterns_per_GL_per_iso, iso_entropies_per_GL>>
     ELSE \E k \in min_GL_and_isos : \E chosen_pattern \in weighted_patterns(k) :
            /\ patterns_per_GL_per_iso' = [patterns_per_GL_per_iso EXCEPT ![k] = {chosen_pattern}]
            /\ iso_entropies_per_GL' = [iso_entropies_per_GL EXCEPT ![k] = pinned_entropy(k)]
            /\ nodes_to_propagate' = SetOf(k[2])
            /\ pc' = "propagate"
            /\ UNCHANGED <<isos_to_propagate, removed_values_per_node, next_nodes, raised>>
  /\ propStart' = IF min_GL_and_isos = {} THEN propStart
                  ELSE [values |-> values_per_node, patterns |-> patterns_per_GL_per_iso']
  /\ UNCHANGED <<inputs, fpSum, sumRose, op, iter, static, GO, values_per_node, iteration_count, ret,
                 failedSinceReset, runBudget, snapshot, resetAfter, resetsInRow>>

\* --------------------------------------------------------------------- run
Budgets == {-1} \cup (0..MaxIter)

\* a call of the public run(iter)
Run(n) ==
  /\ pc = "ready" /\ iteration_count < MaxIterationCount
  /\ op' = "run" /\ iter' = n /\ pc' = "while"
  /\ exc' = "none" /\ exc_loc' = NoLoc /\ escaped' = "none" /\ escaped_loc' = NoLoc
  /\ ret' = "NA"
  /\ runBudget' = n /\ obsCalls' = 0 /\ resetsInRow' = 0
  /\ sumRose' = FALSE /\ propStart' = Empty
  /\ UNCHANGED <<inputs, fpSum, static, GO, tables, iteration_count, locals,
                 failedSinceReset, loopsStarted, snapshot, resetAfter, fp>>

\* variant: the iteration is counted only once _iso_observe has returned an iso
RunLoop_count_after_observe ==
  /\ pc = "while" /\ iter # 0
  /\ iteration_count' = IF min_GL_and_isos = {} THEN iteration_count ELSE iteration_count + 1
  /\ pc' = "observe"
  /\ propStart' = Empty
  /\ UNCHANGED <<inputs, fpSum, sumRose, op, iter, static, GO, tables, locals, raised, ret,
                 failedSinceReset, loopsStarted, runBudget, obsCalls, snapshot, resetAfter,
                 resetsInRow, fp>>

\* line 240 with iter != 0, then line 241
RunLoop ==
  /\ pc = "while" /\ iter # 0
  /\ iteration_count' = iteration_count + 1
  /\ pc' = "observe"
  /\ propStart' = Empty
  /\ UNCHANGED <<inputs, fpSum, sumRose, op, iter, static, GO, tables, locals, raised, ret,
                 failedSinceReset, loopsStarted, runBudget, obsCalls, snapshot, resetAfter, resetsInRow, fp>>

\* line 240 with iter = 0: run falls off its end and returns None
RunReturnNone ==
  /\ pc = "while" /\ iter = 0
  /\ ret' = "None" /\ pc' = "ready"
  /\ runBudget' = 0 /\ obsCalls' = 0
  /\ propStart' = Empty
  /\ UNCHANGED <<inputs, fpSum, sumRose, op, iter, static, GO, tables, iteration_count, locals, raised,
                 failedSinceReset, loopsStarted, snapshot, resetAfter, resetsInRow, fp>>

\* variant: the contradiction is swallowed and run falls off its end
RunHandler_swallows(e) == IF e = "_FinishedObserving" THEN "True" ELSE "None"

\* variant: the two except clauses swapped
RunHandler_swapped(e) == IF e = "_FinishedObserving" THEN "False" ELSE "True"

\* the except clauses of run (lines 245-248)
RunHandler(e) == IF e = "_FinishedObserving" THEN "True" ELSE "False"

CatchRun ==
  /\ pc = "unwind" /\ op = "run"
  /\ ret' = RunHandler(exc)
  /\ pc' = "ready" /\ iter' = 0
  /\ failedSinceReset' = (failedSinceReset \/ ret' = "False")
  /\ runBudget' = 0 /\ obsCalls' = 0
  /\ propStart' = Empty
  /\ UNCHANGED <<inputs, fpSum, sumRose, op, static, GO, tables, iteration_count, locals, raised,
                 loopsStarted, snapshot, resetAfter, resetsInRow, fp>>

\* the except clause of reset (lines 129-131): ValueError naming the location;
\* raised out of the constructor no state object exists
CatchReset ==
  /\ pc = "unwind" /\ op \in {"init", "reset"}
  /\ escaped' = "ValueError" /\ escaped_loc' = exc_loc
  /\ pc' = IF op = "init" THEN "raised" ELSE "ready"
  /\ UNCHANGED <<inputs, ghost2, op, iter, static, GO, tables, iteration_count, locals,
                 exc, exc_loc, ret, ghost>>

Next ==
  \/ Construct
  \/ Reset
  \/ ResetBody
  \/ PropagateEnter
  \/ PropagateNode
  \/ PropagateNodesDone
  \/ PropagateIso
  \/ PropagateIsosDone
  \/ PropagateReturnReset
  \/ PropagateReturnRun
  \/ \E startnodes \in SUBSET DOMAIN GO : Propagate(startnodes)
  \/ PropagateReturnProbe
  \/ CatchProbe
  \/ Observe
  \/ \E n \in Budgets : Run(n)
  \/ RunLoop
  \/ RunReturnNone
  \/ CatchRun
  \/ CatchReset

Spec == Init /\ [][Next]_vars

\* the steps taken inside a call: a call that has started keeps executing
\* until it returns or raises (the public calls Reset, Run and Propagate are
\* made by the caller whenever it likes, or never)
Internal ==
  \/ Construct
  \/ ResetBody
  \/ PropagateEnter
  \/ PropagateNode
  \/ PropagateNodesDone
  \/ PropagateIso
  \/ PropagateIsosDone
  \/ PropagateReturnReset
  \/ PropagateReturnRun
  \/ PropagateReturnProbe
  \/ CatchProbe
  \/ Observe
  \/ RunLoop
  \/ RunReturnNone
  \/ CatchRun
  \/ CatchReset

\* the specification for termination: construction on the fly of some of the
\* scenarios, then reset() and run(-1) called in any order
LiveScenarios == {1, 2, 3, 4, 5, 7}

LiveInit == Init /\ scen \in LiveScenarios /\ mode = "fly"

LiveNext ==
  \/ Construct
  \/ Reset
  \/ ResetBody
  \/ PropagateEnter
  \/ PropagateNode
  \/ PropagateNodesDone
  \/ PropagateIso
  \/ PropagateIsosDone
  \/ PropagateReturnReset
  \/ PropagateReturnRun
  \/ Observe
  \/ Run(-1)
  \/ RunLoop
  \/ CatchRun
  \/ CatchReset

LiveSpec == LiveInit /\ [][LiveNext]_vars /\ WF_vars(Internal)

TypeOK ==
  /\ pc \in {"new", "reset", "propagate", "nodes", "isos", "while", "observe", "unwind", "ready", "raised"}
  /\ op \in {"init", "reset", "run", "probe_init", "probe_reset", "probe_run"}
  /\ ret \in {"NA", "True", "False", "None"}
  /\ iteration_count \in Nat


\* ------------------------------------------------------- common predicates
\* run() has returned to its caller
RunReturned == pc = "ready" /\ op = "run"
\* reset() or the constructor has returned normally
ResetReturned == pc = "ready" /\ op \in {"init", "reset"} /\ escaped = "none"
\* the input GO carries no color
Uncolored == \A v \in S.GO.n : S.GOc[v] = Unset
ColorsOf(iso) == [i \in 1..Len(iso) |-> GO[iso[i]]]
AllPinned == \A k \in Keys : Cardinality(patterns_per_GL_per_iso[k]) = 1
AllColored == \A v \in DOMAIN GO : GO[v] # Unset
NoEmptySet == /\ \A v \in DOMAIN values_per_node : values_per_node[v] # {}
              /\ \A k \in Keys : patterns_per_GL_per_iso[k] # {}


\* the projection of the admissible patterns of iso k on its node v
Projection(k, v) == {pattern[Index(k[2], v)] : pattern \in patterns_per_GL_per_iso[k]}
KeysOf(v) == {k \in Keys : v \in SetOf(k[2])}
NodeIsoConsistent ==
  \A v \in DOMAIN GO :
    /\ values_per_node[v] = {c \in all_colors : \A k \in KeysOf(v) : c \in Projection(k, v)}
    /\ \A k \in KeysOf(v) : Projection(k, v) \subseteq values_per_node[v]
ColorAgreement ==
  \A v \in DOMAIN GO :
    /\ (Cardinality(values_per_node[v]) = 1) <=> (GO[v] # Unset)
    /\ GO[v] # Unset => values_per_node[v] = {GO[v]}

\* ------------------------------------------------------------------ claims

\* C1: for a GO without initial colors, when no run has returned Failed since
\* the last reset and run() returns True, every iso has exactly one admissible
\* pattern, a key of pattern_count of its GL, every node of the working GO is
\* colored, and the colors of the nodes of every iso spell its pattern.
C1_DoneIsCompleteColoring ==
  (RunReturned /\ ret = "True" /\ ~failedSinceReset /\ Uncolored) =>
     /\ \A k \in Keys : \E p \in DOMAIN pattern_count_per_GL[k[1]] :
           patterns_per_GL_per_iso[k] = {p} /\ ColorsOf(k[2]) = p
     /\ AllColored

C1_Witness ==
  /\ RunReturned /\ ret = "True" /\ ~failedSinceReset /\ Uncolored
  /\ Keys # {} /\ iteration_count >= 3

\* C2: run() returns False exactly when a _Contradiction was raised in it and
\* True exactly when _iso_observe raised _FinishedObserving (no iso of positive
\* entropy); neither sentinel escapes; a contradiction in the initial
\* propagation of the constructor or of reset() leaves as a ValueError that
\* carries the location and never as a return value.
C2_SentinelsTranslated ==
  /\ escaped \notin {"_Contradiction", "_FinishedObserving"}
  /\ RunReturned =>
       /\ (ret = "False") <=> (exc = "_Contradiction")
       /\ (ret = "True") <=> (exc = "_FinishedObserving")
       /\ (ret = "True") => \A k \in Keys : iso_entropies_per_GL[k] = 0
       /\ (ret = "False") => exc_loc[1] \in {"node", "iso"}
       /\ escaped = "none"
  /\ (pc \in {"ready", "raised"} /\ op \in {"init", "reset"} /\ exc = "_Contradiction") =>
       /\ escaped = "ValueError" /\ escaped_loc = exc_loc
       /\ exc_loc[1] \in {"node", "iso"}
       /\ ret = "NA"

C2_Witness == RunReturned /\ ret = "False" /\ exc = "_Contradiction" /\ exc_loc[1] = "node"

C2_WitnessValueError == pc = "raised" /\ escaped = "ValueError" /\ exc = "_Contradiction"

\* C3 as stated: after a run() that returned Failed, a later run() on that
\* state that returns Done or Paused leaves no values[v] and no patterns[j][I]
\* empty.
C3_Original ==
  (RunReturned /\ failedSinceReset /\ ret \in {"True", "None"}) => NoEmptySet

\* C3 amended: when run() returns Done or Paused no patterns[j][I] is empty,
\* and a values[v] is empty only if a run has returned Failed since the last
\* reset (the set emptied by the contradiction stays empty until reset()).
C3_EmptyOnlyAfterFailed ==
  (RunReturned /\ ret \in {"True", "None"}) =>
     /\ \A k \in Keys : patterns_per_GL_per_iso[k] # {}
     /\ (\E v \in DOMAIN values_per_node : values_per_node[v] = {}) => failedSinceReset

C3_Witness ==
  /\ RunReturned /\ ret \in {"True", "None"} /\ failedSinceReset
  /\ \E v \in DOMAIN values_per_node : values_per_node[v] = {}

\* C4: a run() with a positive budget that ends without contradiction while
\* every iso is pinned and every node of the working GO is colored returns
\* True, also when the budget is used up by the last observation.
C4_TrueWhenCompletelyColored ==
  [][(pc = "while" /\ pc' = "ready" /\ runBudget > 0 /\ Uncolored /\ Keys # {}
        /\ AllPinned /\ AllColored)
       => ret' = "True"]_vars


\* C5: run(0) returns None and changes no table, no GO color and not
\* iteration_count; run(n) with n > 0 calls _iso_observe at most n times;
\* after reset() iteration_count is 0, and whenever a call has returned it
\* equals the number of _iso_observe calls (loop iterations started) since the
\* last reset.
C5_BudgetAndCount ==
  /\ [](/\ (op = "run" /\ pc # "ready" /\ runBudget > 0) => obsCalls <= runBudget
        /\ (pc = "ready" /\ escaped = "none") => iteration_count = loopsStarted
        /\ ResetReturned => iteration_count = 0)
  /\ [][/\ (pc = "ready" /\ pc' = "while" /\ runBudget' = 0) =>
              UNCHANGED <<tables, GO, iteration_count>>
        /\ (pc = "while" /\ op = "run" /\ runBudget = 0) =>
              /\ UNCHANGED <<tables, GO, iteration_count>>
              /\ ret' = "None" /\ pc' = "ready"]_vars

C5_Witness ==
  /\ pc = "while" /\ op = "run" /\ iter = 0
  /\ runBudget >= 2 /\ obsCalls = runBudget /\ iteration_count = loopsStarted

\* C6: whatever runs came before, a reset() that returns leaves values,
\* patterns, entropies, the colors of the working GO and iteration_count as
\* they were right after construction (so a second reset() changes nothing),
\* and it does not raise.
C6_ResetRestoresConstruction ==
  (pc = "ready" /\ op = "reset") => (escaped = "none" /\ Snap = snapshot)

C6_Witness ==
  /\ pc = "ready" /\ op = "reset" /\ resetAfter = "False" /\ resetsInRow = 2
  /\ Keys # {} /\ Snap = snapshot

\* C7 as stated: after construction, after reset() and after every propagate
\* that completes without contradiction inside run(), values[v] is the
\* intersection of the projections of the isos containing v and every
\* admissible pattern of such an iso has its color at v in values[v].
C7_Original == fp => NodeIsoConsistent

\* C7 amended: the same, for the propagates of runs with no Failed return
\* since the last reset.
C7_ConsistentAtFixedPoint == (fp /\ ~failedSinceReset) => NodeIsoConsistent

C7_Witness ==
  /\ fp /\ ~failedSinceReset /\ op = "run" /\ pc = "while"
  /\ \E v \in DOMAIN GO : Cardinality(values_per_node[v]) > 1 /\ values_per_node[v] # all_colors

\* C8: at every propagate fixed point, for every node v of the working GO,
\* values[v] is a singleton if and only if the color of v is set, and then
\* the color is the element of values[v]; also for a GO that came with colors.
C8_ColorAgreement == fp => ColorAgreement

\* C9: a GO node that comes with a color outside the colors of the extracted
\* patterns makes the construction fail with a ValueError located at that
\* node or at an iso containing it.
BadPreColor(v) ==
  /\ S.GOc[v] # Unset
  /\ S.GOc[v] \notin UNION {SetOf(p) : p \in UNION {DOMAIN get_patterns(S.GI, S.GIc, S.GLs)[j] :
                                                      j \in 1..Len(S.GLs)}}
C9_BadPreColorRejected ==
  (mode = "fly" /\ \E v \in S.GO.n : BadPreColor(v)) =>
     /\ pc # "ready"
     /\ pc = "raised" =>
          /\ escaped = "ValueError"
          /\ \E v \in S.GO.n : /\ BadPreColor(v)
                               /\ \/ escaped_loc = <<"node", v>>
                                  \/ escaped_loc[1] = "iso" /\ v \in SetOf(escaped_loc[2])

\* C10: the construction from the cached tables (pattern_count_per_GL and
\* GO_isos_per_GL, no GLs, no GI) succeeds and ends in the tables of the
\* construction on the fly.
C10_CachedConstructionSucceeds ==
  mode = "cached" =>
     /\ escaped = "none" /\ pc # "raised"
     /\ ResetReturned =>
          /\ pattern_count_per_GL = get_patterns(S.GI, S.GIc, S.GLs)
          /\ GO_isos_per_GL = get_isos(S.GO, S.GLs)


\* C11: the construction with an empty list of GLs fails (no state is
\* produced).
C11_EmptyGLsRejected == (mode = "fly" /\ Len(S.GLs) = 0) => pc # "ready"

\* C12: when a node of GI has no color (attribute missing or None), also a
\* node in no iso of any GL, the construction fails.
C12_UncoloredGIRejected ==
  (mode = "fly" /\ \E v \in S.GI.n : S.GIc[v] \in {Unset, NoneColor}) => pc # "ready"


\* C13: a GO node is in invisible_nodes iff no iso of any GL contains it; the
\* node set of the working GO is V(GO) minus invisible_nodes after the
\* construction and after every reset() and run(), so that an invisible node
\* never gets a color; when no GL has an iso in GO every node is invisible and
\* run() returns True from its first _iso_observe call.
Constructed == pc \notin {"new", "raised"}
C13_Invisibility ==
  /\ [](/\ Constructed =>
             invisible_nodes =
               {v \in S.GO.n : \A k \in IsoKeys(get_isos(S.GO, S.GLs)) : v \notin SetOf(k[2])}
        /\ pc = "ready" => DOMAIN GO = S.GO.n \ invisible_nodes
        /\ DOMAIN GO \cap invisible_nodes = {}
        /\ (Constructed /\ Keys = {}) =>
             /\ invisible_nodes = S.GO.n
             /\ (pc = "unwind" /\ op = "run") => (exc = "_FinishedObserving" /\ obsCalls = 1)
             /\ RunReturned => ret \in {"True", "None"})
  /\ [][(Keys = {} /\ pc = "while" /\ pc' = "ready") => runBudget = 0]_vars

C13_Witness ==
  /\ RunReturned /\ ret = "True" /\ Keys # {}
  /\ invisible_nodes # {} /\ invisible_nodes # S.GO.n /\ AllColored

C13_WitnessAllInvisible ==
  /\ RunReturned /\ ret = "True" /\ Len(S.GLs) > 0 /\ Keys = {} /\ invisible_nodes = S.GO.n


\* C14 as stated: in a state left by a completed propagate (construction,
\* reset, or a non-failing iteration of run), _propagate called with any
\* subset of the nodes of the working GO raises no contradiction and changes
\* no values, patterns, entropy or GO color.
C14_Original ==
  [][Probing => (UNCHANGED <<tables, GO>> /\ pc' # "unwind")]_vars

\* C14 amended: the same, when no run() has returned Failed since the last
\* reset().
C14_PropagateIdempotent ==
  [][(Probing /\ ~failedSinceReset) => (UNCHANGED <<tables, GO>> /\ pc' # "unwind")]_vars

C14_Witness ==
  /\ op = "probe_run" /\ pc = "isos" /\ ~failedSinceReset /\ Keys # {}
  /\ \E v \in DOMAIN GO : Cardinality(values_per_node[v]) > 1


\* C15: between two resets every step (node update, iso update, observe)
\* leaves every values[v] a subset of its previous value and of the color
\* universe, and every patterns[j][I] a subset of its previous value and of
\* the keys of pattern_count[j].
C15_MonotoneShrinking ==
  [][(Constructed /\ pc # "reset") =>
       /\ \A v \in DOMAIN values_per_node :
            /\ values_per_node'[v] \subseteq values_per_node[v]
            /\ values_per_node'[v] \subseteq all_colors
       /\ \A k \in DOMAIN patterns_per_GL_per_iso :
            /\ patterns_per_GL_per_iso'[k] \subseteq patterns_per_GL_per_iso[k]
            /\ patterns_per_GL_per_iso'[k] \subseteq DOMAIN pattern_count_per_GL[k[1]]]_vars

C15_Witness ==
  /\ op = "run" /\ pc = "isos" /\ iteration_count >= 2
  /\ \E v \in DOMAIN values_per_node : values_per_node[v] # all_colors
  /\ \E k \in Keys : /\ Cardinality(patterns_per_GL_per_iso[k]) > 1
                     /\ patterns_per_GL_per_iso[k] # DOMAIN pattern_count_per_GL[k[1]]


\* the forced-failure inputs: GI the path colored b,b,r,y, one edge as GL,
\* an uncolored triangle as GO
ForcedFailureScenario ==
  /\ S.GI = Path4 /\ S.GIc = bbry /\ S.GLs = <<Edge>>
  /\ S.GO = Triangle /\ S.GOc = NoColors(Triangle)

\* the number of nodes of GO colored c
ColorCount(c) == Cardinality({v \in DOMAIN GO : GO[v] = c})

\* a run() on the forced-failure scenario, none of whose predecessors since
\* the last reset returned Failed, has returned Done
ForcedFailureDone ==
  ForcedFailureScenario /\ RunReturned /\ ret = "True" /\ ~failedSinceReset

\* C16 (as stated): in the forced-failure scenario every run() that returns
\* Done has colored all three triangle nodes b.
C16_Original == ForcedFailureDone => ColorCount("b") = 3

\* C16: in the forced-failure scenario every run() that returns Done, with no
\* Failed run since the last reset, has
\* colored the triangle with b and r only, with at most one r (every edge
\* carries one of the pairs (b,b), (b,r), (r,b)); y never appears.
C16_DoneColorings ==
  ForcedFailureDone =>
     /\ ColorCount("b") + ColorCount("r") = 3
     /\ ColorCount("r") <= 1

\* a Done run of the scenario that used r
C16_Witness ==
  /\ ForcedFailureDone
  /\ ColorCount("b") = 2 /\ ColorCount("r") = 1

\* a Done run of the scenario colored all b, and a Failed run of it
C16_WitnessAllB ==
  ForcedFailureDone /\ ColorCount("b") = 3
C16_WitnessFailed ==
  /\ ForcedFailureScenario /\ RunReturned /\ ret = "False"
  /\ exc = "_Contradiction" /\ iteration_count = 1


\* C17 (as stated): across a run that ends in Done the sum of all entropies,
\* measured at each propagate fixed point, never rises from one fixed point
\* to the next.
C17_Original ==
  (RunReturned /\ ret = "True" /\ ~failedSinceReset) => ~sumRose

\* C17: each observation (the pin of _iso_observe, before the propagation that
\* follows it) strictly decreases the sum of all entropies: the observed iso
\* had positive entropy and gets 0, every other entropy is unchanged.
C17_ObservationDecreasesSum ==
  [][(pc = "observe" /\ pc' = "propagate") =>
       SumOver(Keys, iso_entropies_per_GL') < SumOver(Keys, iso_entropies_per_GL)]_vars

\* the state right after the second observation of a run: the sum is below
\* the one of the fixed point the observation started from
C17_Witness ==
  /\ op = "run" /\ pc = "propagate" /\ obsCalls = 2 /\ ~failedSinceReset
  /\ propStart # Empty /\ propStart.patterns = patterns_per_GL_per_iso
  /\ 0 < EntropySum /\ EntropySum < fpSum

\* a Done run in which the sum at a fixed point was larger than at the one
\* before
C17_WitnessRise ==
  /\ RunReturned /\ ret = "True" /\ ~failedSinceReset /\ sumRose
  /\ iteration_count >= 2 /\ EntropySum = 0


\* control is inside _propagate
InPropagate == pc \in {"propagate", "nodes", "isos"}

\* run(-1) has just been entered on the state reset() produced
UnboundedRunStarted ==
  /\ op = "run" /\ pc = "while" /\ runBudget = -1 /\ obsCalls = 0
  /\ iteration_count = 0

\* C18: every propagate that is entered is left (by return or by a
\* contradiction); run with a negative budget entered on a state produced by
\* reset() returns, with Done or Failed; a run with no Failed before it since
\* the last reset calls the observer at most (number of GO isos) + 1 times.
C18_Termination ==
  /\ InPropagate ~> ~InPropagate
  /\ UnboundedRunStarted ~> (RunReturned /\ ret \in {"True", "False"})
  /\ []((op = "run" /\ ~failedSinceReset) => obsCalls <= Cardinality(Keys) + 1)

\* run(-1) entered on a reset state is about to return Done after two
\* observations and the call that found nothing left to observe
C18_Witness ==
  /\ op = "run" /\ runBudget = -1 /\ pc = "unwind" /\ exc = "_FinishedObserving"
  /\ obsCalls = iteration_count /\ obsCalls = 3 /\ ~failedSinceReset


\* one round of both update rules on tables T = [values, patterns]: a color
\* stays at a node when every iso through the node has a pattern showing it
\* there, a pattern stays at an iso when each of its colors is still at the
\* iso's node
Shrink(T) ==
  [values |->
     [v \in DOMAIN T.values |->
        {c \in T.values[v] :
           \A k \in {kk \in DOMAIN T.patterns : v \in SetOf(kk[2])} :
              \E pattern \in T.patterns[k] : pattern[Index(k[2], v)] = c}],
   patterns |->
     [k \in DOMAIN T.patterns |->
        {pattern \in T.patterns[k] :
           \A i \in 1..Len(k[2]) : pattern[i] \in T.values[k[2][i]]}]]

\* the greatest mutually consistent sub-assignment of T
RECURSIVE GreatestConsistent(_)
GreatestConsistent(T) == LET N == Shrink(T) IN IF N = T THEN T ELSE GreatestConsistent(N)

HasEmptySet(T) ==
  \/ \E v \in DOMAIN T.values : T.values[v] = {}
  \/ \E k \in DOMAIN T.patterns : T.patterns[k] = {}

\* C19: a propagate started by reset-time initialisation or by an observation
\* on a fixed point ends, whatever the order of the node pops and of the iso
\* iteration, with values and patterns equal to the greatest mutually
\* consistent sub-assignment of the tables it started from when that has no
\* empty set, and raises a contradiction only when that has an empty set.
C19_PropagationResultUnique ==
  (propStart # Empty /\ ~failedSinceReset) =>
     LET G == GreatestConsistent(propStart)
     IN /\ fp => /\ values_per_node = G.values
                 /\ patterns_per_GL_per_iso = G.patterns
                 /\ ~HasEmptySet(G)
        /\ (pc = "unwind" /\ exc = "_Contradiction") => HasEmptySet(G)

\* a propagate after an observation has ended and has shrunk a node and an
\* iso the observation did not touch
C19_Witness ==
  /\ fp /\ op = "run" /\ pc = "while" /\ ~failedSinceReset /\ propStart # Empty
  /\ \E v \in DOMAIN GO : /\ values_per_node[v] # propStart.values[v]
                          /\ Cardinality(values_per_node[v]) > 1
  /\ \E k \in Keys : /\ patterns_per_GL_per_iso[k] # propStart.patterns[k]
                     /\ Cardinality(patterns_per_GL_per_iso[k]) > 1

\* a propagate after an observation has raised a contradiction
C19_WitnessContradiction ==
  /\ op = "run" /\ pc = "unwind" /\ exc = "_Contradiction" /\ ~failedSinceReset
  /\ propStart # Empty /\ HasEmptySet(GreatestConsistent(propStart))


\* some iso has positive entropy
SomePositiveEntropy == \E k \in Keys : iso_entropies_per_GL[k] > 0

\* C20: the step of the observer.  With some iso of positive entropy it picks
\* an iso whose entropy is the least positive one and a pattern of that iso's
\* current set (counted at least once), makes the set that single pattern and
\* the entropy 0, and changes no values, no GO color and no pattern set or
\* entropy of another iso.  With no iso of positive entropy it raises
\* _FinishedObserving and changes none of them.
C20_ObserverStep ==
  [][pc = "observe" =>
       IF SomePositiveEntropy
       THEN /\ \E k \in Keys :
                 /\ iso_entropies_per_GL[k] > 0
                 /\ \A k2 \in Keys : iso_entropies_per_GL[k2] > 0 =>
                        iso_entropies_per_GL[k] <= iso_entropies_per_GL[k2]
                 /\ \E pattern \in patterns_per_GL_per_iso[k] :
                       /\ pattern \in DOMAIN pattern_count_per_GL[k[1]]
                       /\ pattern_count_per_GL[k[1]][pattern] >= 1
                       /\ patterns_per_GL_per_iso'[k] = {pattern}
                 /\ iso_entropies_per_GL'[k] = 0
                 /\ \A k2 \in Keys \ {k} :
                       /\ patterns_per_GL_per_iso'[k2] = patterns_per_GL_per_iso[k2]
                       /\ iso_entropies_per_GL'[k2] = iso_entropies_per_GL[k2]
            /\ UNCHANGED <<values_per_node, GO>>
            /\ exc' = "none"
       ELSE /\ exc' = "_FinishedObserving"
            /\ UNCHANGED <<tables, GO>>]_vars

\* right after an observation that had to tell apart isos of different
\* positive entropies: two of them are left
C20_Witness ==
  /\ op = "run" /\ pc = "propagate" /\ propStart # Empty
  /\ propStart.patterns = patterns_per_GL_per_iso /\ propStart.values = values_per_node
  /\ \E k1, k2 \in Keys : /\ 0 < iso_entropies_per_GL[k1]
                          /\ iso_entropies_per_GL[k1] < iso_entropies_per_GL[k2]

\* the observer found no iso of positive entropy
C20_WitnessFinished ==
  /\ op = "run" /\ pc = "unwind" /\ exc = "_FinishedObserving" /\ Keys # {}
  /\ ~SomePositiveEntropy /\ iteration_count >= 2


\* reset() has filled the tables: every iso has its pattern set and entropy
TablesFilled ==
  /\ pc \notin {"new", "raised", "reset"}
  /\ DOMAIN patterns_per_GL_per_iso = Keys /\ DOMAIN iso_entropies_per_GL = Keys

\* the stored entropy of every iso is the entropy of its current pattern set,
\* and it is positive exactly when the set has more than one pattern
EntropyCoherent ==
  \A k \in Keys :
    /\ iso_entropies_per_GL[k] =
         iso_entropy(pattern_count_per_GL[k[1]], patterns_per_GL_per_iso[k])
    /\ (iso_entropies_per_GL[k] > 0) <=> (Cardinality(patterns_per_GL_per_iso[k]) > 1)

\* C21: once reset() has filled the tables, after every iso update, observation
\* and return, the stored entropy of each iso equals the entropy rule on its
\* current pattern set and is positive exactly when the set has more than one
\* pattern; the observer raises _FinishedObserving exactly when no iso has more
\* than one pattern, and otherwise the iso it pins had more than one.
C21_EntropyIndexCoherence ==
  /\ [](TablesFilled => EntropyCoherent)
  /\ [][pc = "observe" =>
          /\ (exc' = "_FinishedObserving") <=>
                (\A k \in Keys : Cardinality(patterns_per_GL_per_iso[k]) <= 1)
          /\ (exc' # "_FinishedObserving") =>
                \E k \in Keys :
                   /\ Cardinality(patterns_per_GL_per_iso[k]) > 1
                   /\ Cardinality(patterns_per_GL_per_iso'[k]) = 1
                   /\ \A k2 \in Keys \ {k} :
                        patterns_per_GL_per_iso'[k2] = patterns_per_GL_per_iso[k2]]_vars

\* in the middle of a run: a pinned iso (entropy 0), an iso whose set has
\* shrunk to two or more patterns, with the entropy of that smaller set, and an
\* iso still holding every counted pattern
C21_Witness ==
  /\ TablesFilled /\ op = "run" /\ pc = "while" /\ fp /\ ~failedSinceReset
  /\ \E k \in Keys : Cardinality(patterns_per_GL_per_iso[k]) = 1
  /\ \E k \in Keys :
        /\ Cardinality(patterns_per_GL_per_iso[k]) > 1
        /\ patterns_per_GL_per_iso[k] # DOMAIN pattern_count_per_GL[k[1]]
        /\ iso_entropies_per_GL[k] > 0
        /\ iso_entropies_per_GL[k] #
             iso_entropy(pattern_count_per_GL[k[1]], DOMAIN pattern_count_per_GL[k[1]])


\* C22: once the constructor has built them, no step of reset(), run() or
\* propagate changes pattern_count_per_GL, GO_isos_per_GL, the node-to-isos
\* index, invisible_nodes, the color universe or the backup copy of GO, and
\* the GO object of the caller keeps the colors it was passed with: colors
\* are written to the working copy only.
C22_SharedTablesNeverMutated ==
  /\ [][pc # "new" => UNCHANGED static]_vars
  /\ [](GO_caller = S.GOc)
  /\ [](pc \notin {"new", "raised"} =>
          \A node \in DOMAIN GO_backup : GO_backup[node] = GO_caller[node])

\* a run has colored every node of the working copy, reset() and a second run
\* have happened, and the backup and the caller's GO are still uncolored
C22_Witness ==
  /\ RunReturned /\ ret = "True" /\ resetAfter = "True" /\ Keys # {}
  /\ \A node \in DOMAIN GO : GO[node] # Unset
  /\ \A node \in DOMAIN GO_backup : GO_backup[node] = Unset
  /\ \A node \in DOMAIN GO_caller : GO_caller[node] = Unset

====
